---- MODULE Spec2Model ----
(***************************************************************************)
(* ReaDrum Machine backup tools: the preset locator, the nested base64     *)
(* codec, the replacement engine, the path extractors, the diff builder    *)
(* and the injector's run (readrum_injector.py, readrum_parser.py,         *)
(* make_replacements_from_csvs.py).                                        *)
(*                                                                         *)
(* Text is a sequence of code points (Python str); a byte string is a      *)
(* sequence of 0..255.  latin1 maps bytes and code points 0..255 one to    *)
(* one.  Line and list indices stored in records are Python's (0-based).   *)
(***************************************************************************)
EXTENDS Integers, Sequences, FiniteSets, TLC

VARIABLES
    loc_text,   \* find_preset_blocks: the text argument
    loc,        \* find_preset_blocks: the loop state (i, presets, ...)
    rb_text,    \* replace_in_block: the span text of the first call
    rb_rules,   \* replace_in_block: the replacements of both calls
    rb_pc,      \* how many times replace_in_block has been applied: 0, 1, 2
    rb_out1,    \* what the first call returned
    rb_out2,    \* what the call on the first call's text returned
    df_orig,    \* Diff Builder: the rows of the original parser CSV
    df_rev,     \* Diff Builder: the rows of the revised parser CSV
    df_pc,      \* 0: nothing run, 1: the injector's csv-pair diff run, 2: both tools run
    df_reps,    \* reps of the injector's csv-pair mode
    df_rows,    \* rows of make_replacements_from_csvs
    ex_frags,   \* extraction: the container fragments the file was made of
    ex_text,    \* extraction: the file text
    ex_pc,      \* 0: nothing run, 1: the injector's extraction run, 2: the parser's too
    ex_map,     \* what extract_map_from_rpl_text returned
    ex_rows,    \* the rows the parser writes
    m_args,     \* injector main: the command line (mode, tables, dry_run)
    m_fs,       \* the file system: the RPL path and the .bak path
    m_fs0,      \* the file system before the run
    m_log,      \* the accesses to the RPL file and the fatal error, in order
    m_pc,       \* where main is
    m_text,     \* text (line 121)
    m_reps,     \* reps
    m_presets,  \* presets (line 232)
    m_k,        \* how many presets the loop of line 235 has gone through
    m_text_lines, \* text_lines
    m_modified, \* modified
    m_results   \* what replace_in_block returned, preset by preset

locVars == <<loc_text, loc>>
rbVars == <<rb_text, rb_rules, rb_pc, rb_out1, rb_out2>>
dfVars == <<df_orig, df_rev, df_pc, df_reps, df_rows>>
exVars == <<ex_frags, ex_text, ex_pc, ex_map, ex_rows>>
mVars ==
    <<m_args, m_fs, m_fs0, m_log, m_pc, m_text, m_reps, m_presets, m_k, m_text_lines,
      m_modified, m_results>>
vars == <<locVars, rbVars, dfVars, exVars, mVars>>
exceptLoc == <<rbVars, dfVars, exVars, mVars>>
exceptRb == <<locVars, dfVars, exVars, mVars>>
exceptDf == <<locVars, rbVars, exVars, mVars>>
exceptEx == <<locVars, rbVars, dfVars, mVars>>
exceptMain == <<locVars, rbVars, dfVars, exVars>>

-----------------------------------------------------------------------------
(* Python str and re primitives used by the three scripts *)

\* str.isspace() / the regex class \s, on code points 0..255
IsSpace(c) == c \in {9, 10, 11, 12, 13, 28, 29, 30, 31, 32, 133, 160}

\* the regex class [A-Za-z0-9+/=]
IsB64Char(c) ==
    \/ (c >= 65 /\ c <= 90)
    \/ (c >= 97 /\ c <= 122)
    \/ (c >= 48 /\ c <= 57)
    \/ c \in {43, 47, 61}

\* the line boundaries of str.splitlines, on code points 0..255
IsLineBreak(c) == c \in {10, 11, 12, 13, 28, 29, 30, 133}

\* number of leading whitespace characters of s
LeadWs(s) ==
    CHOOSE n \in 0..Len(s) :
        /\ \A i \in 1..n : IsSpace(s[i])
        /\ (n = Len(s) \/ ~IsSpace(s[n + 1]))

\* number of trailing whitespace characters of s
TrailWs(s) ==
    CHOOSE n \in 0..Len(s) :
        /\ \A i \in (Len(s) - n + 1)..Len(s) : IsSpace(s[i])
        /\ (n = Len(s) \/ ~IsSpace(s[Len(s) - n]))

\* str.strip()
Strip(s) ==
    IF LeadWs(s) = Len(s) THEN <<>>
    ELSE SubSeq(s, LeadWs(s) + 1, Len(s) - TrailWs(s))

\* s[from:] has prefix p (from is 1-based)
HasAt(s, from, p) ==
    /\ from >= 1
    /\ from + Len(p) - 1 <= Len(s)
    /\ \A i \in 1..Len(p) : s[from + i - 1] = p[i]

\* ''.join(seq)
RECURSIVE Join(_)
Join(seq) == IF seq = <<>> THEN <<>> ELSE Head(seq) \o Join(Tail(seq))

\* the least element of a non-empty set of integers
SetMin(S) == CHOOSE x \in S : \A y \in S : x <= y

\* the positions where a line of s ends: a line boundary, "\r\n" counting as one
LineEnds(s) ==
    {i \in 1..Len(s) : IsLineBreak(s[i]) /\ ~(s[i] = 13 /\ i < Len(s) /\ s[i + 1] = 10)}

\* str.splitlines(True), line by line: start is where the next line begins
RECURSIVE SplitFrom(_, _, _)
SplitFrom(s, start, ends) ==
    IF start > Len(s) THEN <<>>
    ELSE LET later == {e \in ends : e >= start}
         IN  IF later = {} THEN <<SubSeq(s, start, Len(s))>>
             ELSE <<SubSeq(s, start, SetMin(later))>> \o SplitFrom(s, SetMin(later) + 1, ends)

splitlines_keepends(s) == SplitFrom(s, 1, LineEnds(s))

-----------------------------------------------------------------------------
(* Block Locator: find_preset_blocks *)

PresetOpenLit == <<60, 80, 82, 69, 83, 69, 84, 32, 96>>  \* "<PRESET `"
Backtick == 96

\* re.match(r"\s*<PRESET `([^`]+)`", line): [ok, name]
PresetOpenMatch(line) ==
    LET p == LeadWs(line) + 1
        q == p + Len(PresetOpenLit)                 \* first character of the name
        closes == {j \in (q + 1)..Len(line) : line[j] = Backtick}
    IN  IF /\ HasAt(line, p, PresetOpenLit)
           /\ q <= Len(line)
           /\ line[q] # Backtick
           /\ closes # {}
        THEN [ok |-> TRUE,
              name |-> SubSeq(line, q, (CHOOSE j \in closes : \A k \in closes : j <= k) - 1)]
        ELSE [ok |-> FALSE, name |-> <<>>]

\* re.match(r"^\s*>\s*$", line)
IsClosingLine(line) == Strip(line) = <<62>>

\* the state of find_preset_blocks before its first loop test
LocStart(text) ==
    [lines |-> splitlines_keepends(text), i |-> 0, presets |-> <<>>, mode |-> "scan",
     name |-> <<>>, start_i |-> 0, block_lines |-> <<>>]

\* LocStep with the opening line kept as the first body line
LocStepKeepsOpenLine(st) ==
    IF st.mode = "scan"
    THEN IF st.i >= Len(st.lines)
         THEN [st EXCEPT !.mode = "done"]
         ELSE LET m == PresetOpenMatch(st.lines[st.i + 1])
              IN  IF m.ok
                  THEN [st EXCEPT !.mode = "collect", !.name = m.name, !.start_i = st.i,
                                  !.i = st.i + 1, !.block_lines = <<st.lines[st.i + 1]>>]
                  ELSE [st EXCEPT !.i = st.i + 1]
    ELSE IF st.i < Len(st.lines) /\ ~IsClosingLine(st.lines[st.i + 1])
         THEN [st EXCEPT !.block_lines = Append(@, st.lines[st.i + 1]), !.i = st.i + 1]
         ELSE [st EXCEPT !.mode = "scan",
                         !.presets = Append(@, [name |-> st.name, start |-> st.start_i,
                                                end |-> st.i, text |-> Join(st.block_lines)])]

\* one loop test of find_preset_blocks with the branch it takes:
\* mode "scan" is the outer while, "collect" the inner while, "done" the return
LocStep(st) ==
    IF st.mode = "scan"
    THEN IF st.i >= Len(st.lines)
         THEN [st EXCEPT !.mode = "done"]
         ELSE LET m == PresetOpenMatch(st.lines[st.i + 1])
              IN  IF m.ok
                  THEN [st EXCEPT !.mode = "collect", !.name = m.name, !.start_i = st.i,
                                  !.i = st.i + 1, !.block_lines = <<>>]
                  ELSE [st EXCEPT !.i = st.i + 1]
    ELSE IF st.i < Len(st.lines) /\ ~IsClosingLine(st.lines[st.i + 1])
         THEN [st EXCEPT !.block_lines = Append(@, st.lines[st.i + 1]), !.i = st.i + 1]
         ELSE [st EXCEPT !.mode = "scan",
                         !.presets = Append(@, [name |-> st.name, start |-> st.start_i,
                                                end |-> st.i, text |-> Join(st.block_lines)])]

RECURSIVE LocRun(_)
LocRun(st) == IF st.mode = "done" THEN st.presets ELSE LocRun(LocStep(st))

\* readrum_injector.find_preset_blocks: a sequence of [name, start, end, text]
find_preset_blocks(text) == LocRun(LocStart(text))

\* readrum_parser.find_preset_blocks: the same scan, returning [name, text]
RECURSIVE ParserCollect(_, _, _, _, _)
RECURSIVE ParserScan(_, _, _)
ParserCollect(lines, i, name, block_lines, presets) ==
    IF i < Len(lines) /\ ~IsClosingLine(lines[i + 1])
    THEN ParserCollect(lines, i + 1, name, Append(block_lines, lines[i + 1]), presets)
    ELSE ParserScan(lines, i, Append(presets, [name |-> name, text |-> Join(block_lines)]))
ParserScan(lines, i, presets) ==
    IF i >= Len(lines) THEN presets
    ELSE LET m == PresetOpenMatch(lines[i + 1])
         IN  IF m.ok THEN ParserCollect(lines, i + 1, m.name, <<>>, presets)
             ELSE ParserScan(lines, i + 1, presets)

parser_find_preset_blocks(text) == ParserScan(splitlines_keepends(text), 0, <<>>)

-----------------------------------------------------------------------------
(* Base64 Container Codec: base64.b64encode / base64.b64decode, latin1 *)

MinB64Len == 20     \* the {20,} of the base64 line and token patterns
WrapWidth == 76     \* the width outer blocks are re-wrapped to
PadChar == 61       \* "="

\* the base64 alphabet character of a 6-bit value
B64Chr(v) ==
    IF v < 26 THEN 65 + v
    ELSE IF v < 52 THEN 97 + (v - 26)
    ELSE IF v < 62 THEN 48 + (v - 52)
    ELSE IF v = 62 THEN 43 ELSE 47

\* the 6-bit value of a base64 alphabet character other than "="
B64Val(c) ==
    IF c >= 65 /\ c <= 90 THEN c - 65
    ELSE IF c >= 97 /\ c <= 122 THEN c - 97 + 26
    ELSE IF c >= 48 /\ c <= 57 THEN c - 48 + 52
    ELSE IF c = 43 THEN 62 ELSE 63

\* base64.b64encode(b).decode('ascii'): character j of the output, 3 bytes to 4
\* characters, the last group padded with "="
b64encode(b) ==
    LET n == Len(b)
        byte(k) == IF k <= n THEN b[k] ELSE 0
    IN  [j \in 1..(4 * ((n + 2) \div 3)) |->
            LET g == (j - 1) \div 4
                r == (j - 1) % 4
                b1 == byte(3 * g + 1)
                b2 == byte(3 * g + 2)
                b3 == byte(3 * g + 3)
            IN  IF r = 0 THEN B64Chr(b1 \div 4)
                ELSE IF r = 1 THEN B64Chr((b1 % 4) * 16 + b2 \div 16)
                ELSE IF r = 2
                THEN IF 3 * g + 2 > n THEN PadChar ELSE B64Chr((b2 % 16) * 4 + b3 \div 64)
                ELSE IF 3 * g + 3 > n THEN PadChar ELSE B64Chr(b3 % 64)]

\* an alphabet character that carries data
IsB64Data(c) == IsB64Char(c) /\ c # PadChar

\* binascii.a2b_base64 in its lenient mode.  Its loop keeps quad_pos (data
\* characters seen, mod 4) and pads ("=" seen since the last data character while
\* quad_pos >= 2); characters outside the alphabet are dropped; the loop ends at
\* the first "=" with quad_pos >= 2 and quad_pos + pads >= 4; input that ends with
\* quad_pos # 0 raises.  A2BStops are the positions where the loop would end.
A2BStops(s) ==
    {i \in 1..Len(s) :
        /\ s[i] = PadChar
        /\ LET before == {j \in 1..(i - 1) : IsB64Data(s[j])}
               quad_pos == Cardinality(before) % 4
               last == IF before = {} THEN 0 ELSE CHOOSE j \in before : \A k \in before : k <= j
               pads == Cardinality({j \in (last + 1)..i : s[j] = PadChar})
           IN  quad_pos >= 2 /\ quad_pos + pads >= 4}

A2B(s) ==
    LET stops == A2BStops(s)
        stop == IF stops = {} THEN Len(s) + 1 ELSE SetMin(stops)
        data == SelectSeq(SubSeq(s, 1, stop - 1), IsB64Data)
        k == Len(data)
        v(j) == B64Val(data[j])
        nbytes == 3 * (k \div 4) + (IF k % 4 = 3 THEN 2 ELSE IF k % 4 = 2 THEN 1 ELSE 0)
    IN  IF stops = {} /\ k % 4 # 0
        THEN [ok |-> FALSE, bytes |-> <<>>]
        ELSE [ok |-> TRUE,
              bytes |-> [j \in 1..nbytes |->
                  LET g == (j - 1) \div 3
                      r == (j - 1) % 3
                  IN  IF r = 0 THEN v(4 * g + 1) * 4 + v(4 * g + 2) \div 16
                      ELSE IF r = 1 THEN (v(4 * g + 2) % 16) * 16 + v(4 * g + 3) \div 4
                      ELSE (v(4 * g + 3) % 4) * 64 + v(4 * g + 4)]]

\* base64.b64decode(s) of a str inside try/except: [ok, bytes]; a non-ASCII str raises
b64decode(s) ==
    IF \E i \in 1..Len(s) : s[i] > 127
    THEN [ok |-> FALSE, bytes |-> <<>>]
    ELSE A2B(s)

\* bytes.decode('latin1', errors='replace'): byte b is code point b
latin1_decode(b) == b

\* str.encode('latin1', errors='replace'): a code point above 255 becomes "?"
latin1_encode(t) == [i \in 1..Len(t) |-> IF t[i] > 255 THEN 63 ELSE t[i]]

-----------------------------------------------------------------------------
(* Python str searching *)

\* old in s
Contains(s, old) == \E i \in 1..(Len(s) - Len(old) + 1) : HasAt(s, i, old)

\* every position where old occurs in s
MatchPositions(s, old) == {p \in 1..(Len(s) - Len(old) + 1) : HasAt(s, p, old)}

\* s.count(old), old non-empty: non-overlapping occurrences from the left;
\* ps are the positions of old in s, i is where the search resumes
RECURSIVE CountFrom(_, _, _, _)
CountFrom(s, i, old, ps) ==
    LET later == {p \in ps : p >= i}
    IN  IF later = {} THEN 0
        ELSE 1 + CountFrom(s, SetMin(later) + Len(old), old, later)

Count(s, old) == CountFrom(s, 1, old, MatchPositions(s, old))

\* s.replace(old, new), old non-empty (it is at every call site)
RECURSIVE ReplaceFrom(_, _, _, _, _)
ReplaceFrom(s, i, old, new, ps) ==
    LET later == {p \in ps : p >= i}
    IN  IF later = {} THEN SubSeq(s, i, Len(s))
        ELSE SubSeq(s, i, SetMin(later) - 1) \o new
             \o ReplaceFrom(s, SetMin(later) + Len(old), old, new, later)

Replace(s, old, new) == ReplaceFrom(s, 1, old, new, MatchPositions(s, old))

\* first and last positions of the maximal runs of base64 characters of s
RunStarts(s) ==
    {i \in 1..Len(s) : IsB64Char(s[i]) /\ (i = 1 \/ ~IsB64Char(s[i - 1]))}
RunEnds(s) ==
    {i \in 1..Len(s) : IsB64Char(s[i]) /\ (i = Len(s) \/ ~IsB64Char(s[i + 1]))}

\* re.findall(r"[A-Za-z0-9+/=]{20,}", s): the maximal runs of at least 20, in order;
\* starts are the first positions of the runs long enough
RECURSIVE TokensFrom(_, _, _)
TokensFrom(s, starts, ends) ==
    IF starts = {} THEN <<>>
    ELSE LET a == SetMin(starts)
         IN  <<SubSeq(s, a, SetMin({e \in ends : e >= a}))>>
             \o TokensFrom(s, starts \ {a}, ends)

InnerTokens(s) ==
    LET ends == RunEnds(s)
    IN  TokensFrom(s, {a \in RunStarts(s) : SetMin({e \in ends : e >= a}) - a + 1 >= MinB64Len},
                   ends)

\* re.match(r"^\s*[A-Za-z0-9+/=]{20,}\s*$", line)
IsB64Line(line) ==
    LET t == Strip(line)
    IN  Len(t) >= MinB64Len /\ \A i \in 1..Len(t) : IsB64Char(t[i])

-----------------------------------------------------------------------------
(* Replacement Engine: replace_in_block *)

\* lines 44-58: the outer blocks of a span, each [b64, orig]
RECURSIVE GroupBlocks(_, _, _, _, _)
GroupBlocks(lines, i, cur, cur_orig, blocks) ==
    IF i > Len(lines)
    THEN IF cur # <<>> THEN Append(blocks, [b64 |-> Join(cur), orig |-> Join(cur_orig)])
         ELSE blocks
    ELSE IF IsB64Line(lines[i])
    THEN GroupBlocks(lines, i + 1, Append(cur, Strip(lines[i])), Append(cur_orig, lines[i]), blocks)
    ELSE IF cur # <<>>
    THEN GroupBlocks(lines, i + 1, <<>>, <<>>,
                     Append(blocks, [b64 |-> Join(cur), orig |-> Join(cur_orig)]))
    ELSE GroupBlocks(lines, i + 1, <<>>, <<>>, blocks)

OuterBlocks(block_text) == GroupBlocks(splitlines_keepends(block_text), 1, <<>>, <<>>, <<>>)

\* lines 79-87: the rules from the j-th on applied in order to one inner token's text;
\* st is [inner_text, inner_changed, report]
RECURSIVE ApplyRules(_, _, _, _, _)
ApplyRules(st, replacements, j, inner_token, report) ==
    IF j > Len(replacements) THEN st
    ELSE LET old == replacements[j].old_path
             new == replacements[j].new_path
         IN  IF old # <<>> /\ Contains(st.inner_text, old)
             THEN ApplyRules(
                    [inner_text |-> Replace(st.inner_text, old, new),
                     inner_changed |-> TRUE,
                     report |-> IF report
                                THEN Append(st.report,
                                       [old |-> old, new |-> new,
                                        count |-> Count(st.inner_text, old),
                                        inner_token |-> SubSeq(inner_token, 1,
                                            IF Len(inner_token) < 20 THEN Len(inner_token) ELSE 20)])
                                ELSE st.report],
                    replacements, j + 1, inner_token, report)
             ELSE ApplyRules(st, replacements, j + 1, inner_token, report)

\* lines 72-96: the inner tokens from the t-th on; st is
\* [outer_text, outer_bytes, changed, report]
RECURSIVE ApplyTokens(_, _, _, _, _)
ApplyTokens(st, tokens, t, replacements, report) ==
    IF t > Len(tokens) THEN st
    ELSE LET inner_token == tokens[t]
             dec == b64decode(inner_token)
         IN  IF ~dec.ok THEN ApplyTokens(st, tokens, t + 1, replacements, report)
             ELSE LET r == ApplyRules([inner_text |-> latin1_decode(dec.bytes),
                                       inner_changed |-> FALSE, report |-> st.report],
                                      replacements, 1, inner_token, report)
                  IN  IF r.inner_changed
                      THEN LET new_inner_b64 == b64encode(latin1_encode(r.inner_text))
                               outer_text == Replace(st.outer_text, inner_token, new_inner_b64)
                           IN  ApplyTokens([outer_text |-> outer_text,
                                            outer_bytes |-> latin1_encode(outer_text),
                                            changed |-> TRUE, report |-> r.report],
                                           tokens, t + 1, replacements, report)
                      ELSE ApplyTokens([st EXCEPT !.report = r.report],
                                       tokens, t + 1, replacements, report)

\* line 103: the chunks of at most 76 characters, each after the indent, joined by "\n"
RECURSIVE WrapLines(_, _)
WrapLines(b64, indent) ==
    IF Len(b64) <= WrapWidth THEN indent \o b64
    ELSE indent \o SubSeq(b64, 1, WrapWidth) \o <<10>>
         \o WrapLines(SubSeq(b64, WrapWidth + 1, Len(b64)), indent)

\* lines 99-103: the re-encoded block as lines
FormatOuter(outer_bytes, outer_orig_text) ==
    LET new_outer_b64 == b64encode(outer_bytes)
        n == LeadWs(outer_orig_text)
        m_ok == /\ n + MinB64Len <= Len(outer_orig_text)
                /\ \A i \in (n + 1)..(n + MinB64Len) : IsB64Char(outer_orig_text[i])
        indent == IF m_ok THEN SubSeq(outer_orig_text, 1, n) ELSE <<32, 32, 32, 32>>
    IN  IF new_outer_b64 = <<>> THEN <<10>>
        ELSE WrapLines(new_outer_b64, indent) \o <<10>>

\* lines 65-105: one outer block; st is [text, changed, report], changed being the
\* function's one flag, never reset between blocks
ProcessOuter(st, blk, replacements, report) ==
    LET dec == b64decode(blk.b64)
    IN  IF ~dec.ok THEN st
        ELSE LET outer_text == latin1_decode(dec.bytes)
                 r == ApplyTokens([outer_text |-> outer_text, outer_bytes |-> dec.bytes,
                                   changed |-> st.changed, report |-> st.report],
                                  InnerTokens(outer_text), 1, replacements, report)
             IN  IF r.changed
                 THEN [text |-> Replace(st.text, blk.orig, FormatOuter(r.outer_bytes, blk.orig)),
                       changed |-> TRUE, report |-> r.report]
                 ELSE [st EXCEPT !.report = r.report]

RECURSIVE ProcessBlocks(_, _, _, _, _)
ProcessBlocks(st, blocks, b, replacements, report) ==
    IF b > Len(blocks) THEN st
    ELSE ProcessBlocks(ProcessOuter(st, blocks[b], replacements, report),
                       blocks, b + 1, replacements, report)

\* replace_in_block with its changed flag starting out set
replace_in_block_StartsChanged(block_text, replacements, report) ==
    ProcessBlocks([text |-> block_text, changed |-> TRUE, report |-> <<>>],
                  OuterBlocks(block_text), 1, replacements, report)

\* replace_in_block(block_text, replacements, report): [text, changed, report]
replace_in_block(block_text, replacements, report) ==
    ProcessBlocks([text |-> block_text, changed |-> FALSE, report |-> <<>>],
                  OuterBlocks(block_text), 1, replacements, report)

-----------------------------------------------------------------------------
(* The locator run on bounded texts *)

MaxLocAtoms == 3

\* pieces of text the locator's inputs are concatenated from
LocAtoms ==
    { <<60, 80, 82, 69, 83, 69, 84, 32, 96, 75, 49, 96, 10>>,                      \* "<PRESET `K1`\n"
      <<32, 60, 80, 82, 69, 83, 69, 84, 32, 96, 75, 50, 96, 32, 120, 13, 10, 97, 10>>, \* " <PRESET `K2` x\r\na\n"
      <<62, 10>>,                                                                  \* ">\n"
      <<32, 62, 32, 13>>,                                                          \* " > \r"
      <<97, 98, 10, 99, 10>>,                                                      \* "ab\nc\n"
      <<60, 80, 82, 69, 83, 69, 84, 32, 96, 96, 10>>,                              \* "<PRESET ``\n"
      <<62, 32, 120>> }                                                            \* "> x"

RECURSIVE AtomTexts(_)
AtomTexts(n) ==
    IF n = 0 THEN {<<>>}
    ELSE AtomTexts(n - 1) \cup {t \o a : t \in AtomTexts(n - 1), a \in LocAtoms}

\* the variables of the components a specification leaves idle
LocIdle == loc_text = <<>> /\ loc = LocStart(<<>>)
NoResult == [text |-> <<>>, changed |-> FALSE, report |-> <<>>]
RbIdle ==
    /\ rb_text = <<>> /\ rb_rules = <<>> /\ rb_pc = 0
    /\ rb_out1 = NoResult /\ rb_out2 = NoResult

DfIdle ==
    /\ df_orig = <<>> /\ df_rev = <<>> /\ df_pc = 0
    /\ df_reps = <<>> /\ df_rows = <<>>

ExIdle ==
    /\ ex_frags = <<>> /\ ex_text = <<>> /\ ex_pc = 0
    /\ ex_map = <<>> /\ ex_rows = <<>>

Absent == <<-1>>     \* the content of a path that does not exist

MainIdle ==
    /\ m_args = [mode |-> "none", dry_run |-> FALSE]
    /\ m_fs = [rpl |-> Absent, bak |-> Absent] /\ m_fs0 = m_fs
    /\ m_log = <<>> /\ m_pc = "idle" /\ m_text = <<>> /\ m_reps = <<>>
    /\ m_presets = <<>> /\ m_k = 0 /\ m_text_lines = <<>>
    /\ m_modified = FALSE /\ m_results = <<>>

InitLoc ==
    /\ loc_text \in AtomTexts(MaxLocAtoms)
    /\ loc = LocStart(loc_text)
    /\ RbIdle /\ DfIdle /\ ExIdle /\ MainIdle

LocStepAction ==
    /\ loc.mode # "done"
    /\ loc' = LocStep(loc)
    /\ UNCHANGED <<loc_text, exceptLoc>>

NextLoc == LocStepAction

SpecLoc == InitLoc /\ [][NextLoc]_vars
\* the loop is sequential code: a step that can be taken is taken
SpecLocFair == SpecLoc /\ WF_vars(NextLoc)

\* '>' alone on the line, optionally surrounded by whitespace
ClosingOnly(line) ==
    \E p \in 1..Len(line) :
        line[p] = 62 /\ \A q \in 1..Len(line) : q # p => IsSpace(line[q])

\* sp is the span that starts at its start line: it ends at the first closing-only
\* line after the start, or at the number of lines, and holds the lines between
SpanOK(sp, lines) ==
    /\ sp.start \in 0..(Len(lines) - 1)
    /\ PresetOpenMatch(lines[sp.start + 1]).ok
    /\ sp.name = PresetOpenMatch(lines[sp.start + 1]).name
    /\ LET closers == {j \in (sp.start + 1)..(Len(lines) - 1) : ClosingOnly(lines[j + 1])}
       IN  sp.end = IF closers = {} THEN Len(lines)
                    ELSE CHOOSE j \in closers : \A k \in closers : j <= k
    /\ sp.text = Join(SubSeq(lines, sp.start + 2, sp.end))

LocResultOK ==
    LET lines == splitlines_keepends(loc_text)
        ps == loc.presets
    IN  /\ \A a \in 1..Len(ps) : SpanOK(ps[a], lines)
        /\ \A a, b \in 1..Len(ps) : a < b => ps[a].end <= ps[b].start
        /\ parser_find_preset_blocks(loc_text)
             = [a \in 1..Len(ps) |-> [name |-> ps[a].name, text |-> ps[a].text]]

\* C9: on every finite text find_preset_blocks terminates, and its spans are in file
\* order and pairwise disjoint, each starting at a preset-open line, ending at the
\* first closing-only line after it (or at the number of lines when there is none)
\* and holding exactly the lines strictly between; the parser's copy returns the
\* same names and texts.
C9_LocatorSpans == [](loc.mode = "done" => LocResultOK) /\ <>(loc.mode = "done")

\* a finished scan with a closed span followed by a non-empty unterminated one
C9_Witness ==
    /\ loc.mode = "done"
    /\ Len(loc.presets) = 2
    /\ loc.presets[1].end < Len(loc.lines)
    /\ loc.presets[2].end = Len(loc.lines)
    /\ loc.presets[2].text # <<>>

-----------------------------------------------------------------------------
(* Preset spans the replacement engine and the injector are run on *)

HdrK == <<60, 67, 79, 78, 84, 65, 73, 78, 69, 82, 32, 67, 111, 110, 116, 97, 105, 110, 101,
          114, 32, 34, 49, 58, 32, 75, 34, 10>>     \* "<CONTAINER Container \"1: K\"\n"
HdrS == <<60, 67, 79, 78, 84, 65, 73, 78, 69, 82, 32, 67, 111, 110, 116, 97, 105, 110, 101,
          114, 32, 34, 50, 58, 32, 83, 34, 10>>     \* "<CONTAINER Container \"2: S\"\n"
PathA == <<47, 85, 115, 101, 114, 115, 47, 97, 46, 119, 97, 118>>    \* "/Users/a.wav"
PathB == <<47, 85, 115, 101, 114, 115, 47, 98, 46, 119, 97, 118>>    \* "/Users/b.wav"
PathC == <<47, 85, 115, 101, 114, 115, 47, 99, 46, 119, 97, 118>>    \* "/Users/c.wav"
PathZ == <<47, 85, 115, 101, 114, 115, 47, 122, 46, 119, 97, 118>>   \* "/Users/z.wav"
DirA == <<47, 85, 115, 101, 114, 115, 47, 97>>                       \* "/Users/a"
DirAB == <<47, 85, 115, 101, 114, 115, 47, 97, 47, 98>>              \* "/Users/a/b"
DirX == <<47, 85, 115, 101, 114, 115, 47, 120>>                      \* "/Users/x"
SepLine == <<78, 65, 77, 69, 32, 120, 10>>                           \* "NAME x\n"
\* 21 base64 characters: a base64-like line that does not decode
BadB64 == <<65, 65, 65, 65, 65, 65, 65, 65, 65, 65, 65, 65, 65, 65, 65, 65, 65, 65, 65, 65, 65>>

\* an inner token: the payload's bytes in base64
Tok(payload) == b64encode(latin1_encode(payload))

\* payloads as the sampler stores them: NUL-terminated paths
OnePath(path) == path \o <<0, 0, 0>>
TwicePath(path) == path \o <<0>> \o path \o <<0>>

\* a container fragment of a decoded outer block
Frag(hdr, payload) == hdr \o Tok(payload) \o <<10>>

\* an outer block as the file holds it: base64 of the text, width characters a line
RECURSIVE WrapAt(_, _, _)
WrapAt(b64, indent, width) ==
    IF Len(b64) <= width THEN indent \o b64 \o <<10>>
    ELSE indent \o SubSeq(b64, 1, width) \o <<10>>
         \o WrapAt(SubSeq(b64, width + 1, Len(b64)), indent, width)

OuterLines(outer_text, indent, width) == WrapAt(Tok(outer_text), indent, width)

\* the outer blocks spans are made of: the paths held, the line width, the indent
\* (ShortTail: its second line has 12 characters, too few for a base64 line)
BlockA76 == OuterLines(Frag(HdrK, OnePath(PathA)), <<32, 32, 32, 32>>, 76)
BlockAA64 == OuterLines(Frag(HdrK, TwicePath(PathA)), <<>>, 64)
BlockAB44 == OuterLines(Frag(HdrK, OnePath(PathA)) \o Frag(HdrS, OnePath(PathB)), <<32, 32>>, 44)
BlockC40 == OuterLines(Frag(HdrK, OnePath(PathC)), <<32, 32>>, 40)
BlockC76 == OuterLines(Frag(HdrS, OnePath(PathC)), <<32, 32, 32, 32>>, 76)
BlockBadInner == OuterLines(HdrK \o BadB64 \o <<10>> \o Frag(HdrS, OnePath(PathA)), <<9>>, 66)
BlockBad == <<32, 32>> \o BadB64 \o <<10>>
BlockShortTail == OuterLines(Frag(HdrK, TwicePath(PathA)), <<>>, 76)

BlockKinds ==
    {BlockA76, BlockAA64, BlockAB44, BlockC40, BlockC76, BlockBadInner, BlockBad,
     BlockShortTail}

\* spans of 1..n outer blocks, separated by a line that is not base64
RECURSIVE SpanTexts(_)
SpanTexts(n) ==
    IF n = 0 THEN {}
    ELSE BlockKinds \cup SpanTexts(n - 1)
         \cup {t \o SepLine \o b : t \in SpanTexts(n - 1), b \in BlockKinds}

Rule(preset, container, old, new) ==
    [preset |-> preset, container |-> container, old_path |-> old, new_path |-> new]

\* rule lists: one rule, a rule whose new path contains its old path, chains in
\* both orders, a rule whose old path is a prefix of the next rule's, no match
RuleLists ==
    { <<Rule(<<>>, <<>>, PathA, PathB)>>,
      <<Rule(<<>>, <<>>, DirA, DirAB)>>,
      <<Rule(<<>>, <<>>, PathB, PathC), Rule(<<>>, <<>>, PathA, PathB)>>,
      <<Rule(<<>>, <<>>, PathA, PathB), Rule(<<>>, <<>>, PathB, PathC)>>,
      <<Rule(<<>>, <<>>, DirA, DirX), Rule(<<>>, <<>>, PathA, PathC)>>,
      <<Rule(<<>>, <<>>, PathZ, PathA), Rule(<<>>, <<>>, <<>>, PathA)>> }

-----------------------------------------------------------------------------
(* replace_in_block applied once, then again to what it returned *)

MaxBlocks == 2

InitRb ==
    /\ rb_text \in SpanTexts(MaxBlocks)
    /\ rb_rules \in RuleLists
    /\ rb_pc = 0
    /\ rb_out1 = NoResult
    /\ rb_out2 = NoResult
    /\ LocIdle /\ DfIdle /\ ExIdle /\ MainIdle

FirstRun ==
    /\ rb_pc = 0
    /\ rb_out1' = replace_in_block(rb_text, rb_rules, TRUE)
    /\ rb_pc' = 1
    /\ UNCHANGED <<rb_text, rb_rules, rb_out2, exceptRb>>

SecondRun ==
    /\ rb_pc = 1
    /\ rb_out2' = replace_in_block(rb_out1.text, rb_rules, TRUE)
    /\ rb_pc' = 2
    /\ UNCHANGED <<rb_text, rb_rules, rb_out1, exceptRb>>

NextRb == FirstRun \/ SecondRun

SpecRb == InitRb /\ [][NextRb]_vars

-----------------------------------------------------------------------------
(* Diff Builder: the csv-pair mode of the injector and make_replacements_from_csvs *)

\* dict assignment m[key] = path on a dict kept as the sequence of its items in
\* insertion order: an existing key keeps its place and takes the new value
DictPut(m, key, path) ==
    IF \E i \in 1..Len(m) : m[i].key = key
    THEN [i \in 1..Len(m) |-> IF m[i].key = key THEN [key |-> key, path |-> path] ELSE m[i]]
    ELSE Append(m, [key |-> key, path |-> path])

DictHas(m, key) == \E i \in 1..Len(m) : m[i].key = key
DictGet(m, key) == m[CHOOSE i \in 1..Len(m) : m[i].key = key].path

\* readrum_injector.py lines 137-144: read_map, from the j-th row on
RECURSIVE read_map_from(_, _, _)
read_map_from(rows, j, m) ==
    IF j > Len(rows) THEN m
    ELSE read_map_from(rows, j + 1,
             DictPut(m, <<rows[j].preset, rows[j].container, rows[j].note>>, rows[j].path))

read_map(rows) == read_map_from(rows, 1, <<>>)

\* make_replacements_from_csvs.py lines 17-24: its own read_map
RECURSIVE mr_read_map_from(_, _, _)
mr_read_map_from(rows, j, m) ==
    IF j > Len(rows) THEN m
    ELSE mr_read_map_from(rows, j + 1,
             DictPut(m, <<rows[j].preset, rows[j].container, rows[j].note>>, rows[j].path))

mr_read_map(rows) == mr_read_map_from(rows, 1, <<>>)

\* the diff loop without the test old_path != new_path
RECURSIVE csv_pair_loop_NoCompare(_, _, _, _)
csv_pair_loop_NoCompare(orig_map, rev_map, i, reps) ==
    IF i > Len(orig_map) THEN reps
    ELSE LET key == orig_map[i].key
         IN  IF ~DictHas(rev_map, key)
             THEN csv_pair_loop_NoCompare(orig_map, rev_map, i + 1, reps)
             ELSE csv_pair_loop_NoCompare(orig_map, rev_map, i + 1,
                      Append(reps, Rule(key[1], key[2], orig_map[i].path, DictGet(rev_map, key))))

\* readrum_injector.py lines 149-155: the loop over orig_map.items(), from the i-th
\* item on (rev_map.get(key) is None exactly when the key is absent: paths read
\* from complete CSV rows are strings)
RECURSIVE csv_pair_loop(_, _, _, _)
csv_pair_loop(orig_map, rev_map, i, reps) ==
    IF i > Len(orig_map) THEN reps
    ELSE LET key == orig_map[i].key
             old_path == orig_map[i].path
         IN  IF ~DictHas(rev_map, key)
             THEN csv_pair_loop(orig_map, rev_map, i + 1, reps)
             ELSE IF old_path # DictGet(rev_map, key)
             THEN csv_pair_loop(orig_map, rev_map, i + 1,
                      Append(reps, Rule(key[1], key[2], old_path, DictGet(rev_map, key))))
             ELSE csv_pair_loop(orig_map, rev_map, i + 1, reps)

\* readrum_injector.py lines 146-155
csv_pair_reps(orig_rows, rev_rows) ==
    csv_pair_loop(read_map(orig_rows), read_map(rev_rows), 1, <<>>)

\* make_replacements_from_csvs.py lines 35-41
RECURSIVE mr_loop(_, _, _, _)
mr_loop(orig_map, rev_map, i, rows) ==
    IF i > Len(orig_map) THEN rows
    ELSE LET key == orig_map[i].key
             old_path == orig_map[i].path
         IN  IF ~DictHas(rev_map, key)
             THEN mr_loop(orig_map, rev_map, i + 1, rows)
             ELSE IF old_path # DictGet(rev_map, key)
             THEN mr_loop(orig_map, rev_map, i + 1,
                      Append(rows, [preset |-> key[1], container |-> key[2],
                                    old_path |-> old_path, new_path |-> DictGet(rev_map, key)]))
             ELSE mr_loop(orig_map, rev_map, i + 1, rows)

\* make_replacements_from_csvs.py lines 32-41
mr_rows(orig_rows, rev_rows) ==
    mr_loop(mr_read_map(orig_rows), mr_read_map(rev_rows), 1, <<>>)

\* parser CSV rows: three identity tuples, two paths
MaxRows == 2

NameK1 == <<75, 49>>             \* "K1"
NameK2 == <<75, 50>>             \* "K2"
ContK == <<49, 58, 32, 75>>      \* "1: K"
ContS == <<50, 58, 32, 83>>      \* "2: S"
Note1 == <<49>>                  \* "1"
Note2 == <<50>>                  \* "2"

CsvRow(preset, container, note, path) ==
    [preset |-> preset, container |-> container, note |-> note, path |-> path]

CsvRowValues ==
    { CsvRow(k[1], k[2], k[3], p) :
        k \in {<<NameK1, ContK, Note1>>, <<NameK1, ContS, Note2>>, <<NameK2, ContK, Note1>>},
        p \in {PathA, PathB} }

RECURSIVE CsvRowLists(_)
CsvRowLists(n) ==
    IF n = 0 THEN {<<>>}
    ELSE CsvRowLists(n - 1)
         \cup {Append(l, r) : l \in {x \in CsvRowLists(n - 1) : Len(x) = n - 1}, r \in CsvRowValues}

InitDiff ==
    /\ df_orig \in CsvRowLists(MaxRows)
    /\ df_rev \in CsvRowLists(MaxRows)
    /\ df_pc = 0
    /\ df_reps = <<>>
    /\ df_rows = <<>>
    /\ LocIdle /\ RbIdle /\ ExIdle /\ MainIdle

\* readrum_injector.py --csv-pair
CsvPairMode ==
    /\ df_pc = 0
    /\ df_reps' = csv_pair_reps(df_orig, df_rev)
    /\ df_pc' = 1
    /\ UNCHANGED <<df_orig, df_rev, df_rows, exceptDf>>

\* make_replacements_from_csvs.py on the same two files
MakeReplacements ==
    /\ df_pc = 1
    /\ df_rows' = mr_rows(df_orig, df_rev)
    /\ df_pc' = 2
    /\ UNCHANGED <<df_orig, df_rev, df_reps, exceptDf>>

NextDiff == CsvPairMode \/ MakeReplacements

SpecDiff == InitDiff /\ [][NextDiff]_vars

\* The mapping a CSV stands for: a tuple is present when some row has it, and its
\* path is the path of the last such row.
RowKey(r) == <<r.preset, r.container, r.note>>
TuplesOf(rows) == {RowKey(rows[j]) : j \in 1..Len(rows)}
PathOf(rows, key) ==
    rows[CHOOSE j \in 1..Len(rows) :
            RowKey(rows[j]) = key /\ \A l \in (j + 1)..Len(rows) : RowKey(rows[l]) # key].path

\* the tuples present in both mappings whose paths differ
Differing(orig_rows, rev_rows) ==
    {key \in TuplesOf(orig_rows) \cap TuplesOf(rev_rows) :
        PathOf(orig_rows, key) # PathOf(rev_rows, key)}

\* C8: the rules correspond one to one to the tuples present in both mappings whose
\* paths differ, each rule being (preset, container, old path, new path) of its
\* tuple, so there is no rule for a tuple with identical paths or present in one
\* mapping only; make_replacements_from_csvs produces the same list.
C8_DiffBuilder ==
    /\ df_pc >= 1 =>
        \E f \in [1..Len(df_reps) -> Differing(df_orig, df_rev)] :
            /\ \A key \in Differing(df_orig, df_rev) : \E i \in 1..Len(df_reps) : f[i] = key
            /\ \A i, j \in 1..Len(df_reps) : f[i] = f[j] => i = j
            /\ \A i \in 1..Len(df_reps) :
                   df_reps[i] = Rule(f[i][1], f[i][2],
                                     PathOf(df_orig, f[i]), PathOf(df_rev, f[i]))
    /\ df_pc = 2 => df_rows = df_reps

\* both tools have run on mappings with a differing tuple and a tuple with
\* identical paths
C8_Witness ==
    /\ df_pc = 2
    /\ df_reps # <<>>
    /\ \E key \in TuplesOf(df_orig) \cap TuplesOf(df_rev) :
           PathOf(df_orig, key) = PathOf(df_rev, key)

-----------------------------------------------------------------------------
(* Path extraction: extract_map_from_rpl_text (injector) and
   extract_paths_from_block (parser) *)

SetMax(S) == CHOOSE x \in S : \A y \in S : y <= x

\* s.split(sep), sep non-empty: the pieces between the non-overlapping occurrences
\* of sep from the left; ps are the positions of sep in s, i is where the next
\* piece begins
RECURSIVE StrSplitFrom(_, _, _, _)
StrSplitFrom(s, i, sep, ps) ==
    LET later == {p \in ps : p >= i}
    IN  IF later = {} THEN <<SubSeq(s, i, Len(s))>>
        ELSE <<SubSeq(s, i, SetMin(later) - 1)>>
             \o StrSplitFrom(s, SetMin(later) + Len(sep), sep, later)

StrSplit(s, sep) == StrSplitFrom(s, 1, sep, MatchPositions(s, sep))

LitCONTAINER == <<67, 79, 78, 84, 65, 73, 78, 69, 82>>            \* "CONTAINER"
LitOpenCONTAINER == <<60>> \o LitCONTAINER                         \* "<CONTAINER"
LitContainer == <<67, 111, 110, 116, 97, 105, 110, 101, 114>>     \* "Container"
LitVolumes == <<47, 86, 111, 108, 117, 109, 101, 115>>            \* "/Volumes"
LitUsers == <<47, 85, 115, 101, 114, 115>>                        \* "/Users"
Quote == 34
Colon == 58
Dot == 46
Slash == 47

\* the code points of a str read from latin1 bytes
Chars == 0..255
Except(c) == Chars \ {c}
SpaceChars == {c \in Chars : IsSpace(c)}

\* how many characters from position i on are in ok, up to the first that is not
RunLen(s, i, ok) ==
    LET stops == {k \in i..Len(s) : s[k] \notin ok}
    IN  IF stops = {} THEN Len(s) - i + 1 ELSE SetMin(stops) - i

\* the first alternative of exts (tried in order) that s has at position i, as a
\* length; 0 when none
ExtLenAt(s, i, exts) ==
    LET hits == {x \in 1..Len(exts) : HasAt(s, i, exts[x])}
    IN  IF hits = {} THEN 0 ELSE Len(exts[SetMin(hits)])

\* injector line 170: (?:wav|aiff?|flac|ogg|mp3|sfz|WAV|AIF), "aiff?" trying aiff
\* before aif
InjExts ==
    << <<119, 97, 118>>, <<97, 105, 102, 102>>, <<97, 105, 102>>, <<102, 108, 97, 99>>,
       <<111, 103, 103>>, <<109, 112, 51>>, <<115, 102, 122>>, <<87, 65, 86>>,
       <<65, 73, 70>> >>

\* injector line 170: the class [^\x00\n\r\"]
InjPathChars == Chars \ {0, 10, 13, Quote}

\* injector line 170, the match of path_re that begins at position p, as the
\* position of its last character; 0 when there is none. The class is matched
\* lazily: the fewest characters after which a dot and an extension follow.
InjPathEndAt(s, p) ==
    LET pre == IF HasAt(s, p, LitVolumes) THEN Len(LitVolumes)
               ELSE IF HasAt(s, p, LitUsers) THEN Len(LitUsers) ELSE 0
        r == RunLen(s, p + pre, InjPathChars)
        ns == {n \in 1..r : /\ p + pre + n <= Len(s)
                            /\ s[p + pre + n] = Dot
                            /\ ExtLenAt(s, p + pre + n + 1, InjExts) > 0}
    IN  IF pre = 0 \/ ns = {} THEN 0
        ELSE p + pre + SetMin(ns) + ExtLenAt(s, p + pre + SetMin(ns) + 1, InjExts)

\* injector line 203: path_re.search(inner_text), as [ok, path]
InjPathSearch(s) ==
    LET ps == {p \in 1..Len(s) : InjPathEndAt(s, p) > 0}
    IN  IF ps = {} THEN [ok |-> FALSE, path |-> <<>>]
        ELSE [ok |-> TRUE, path |-> SubSeq(s, SetMin(ps), InjPathEndAt(s, SetMin(ps)))]

\* parser line 58: (?:wav|WAV|aif|aiff|aifc|flac|ogg|mp3|sfz|WAV|AIFF|SFZ)
ParExts ==
    << <<119, 97, 118>>, <<87, 65, 86>>, <<97, 105, 102>>, <<97, 105, 102, 102>>,
       <<97, 105, 102, 99>>, <<102, 108, 97, 99>>, <<111, 103, 103>>, <<109, 112, 51>>,
       <<115, 102, 122>>, <<87, 65, 86>>, <<65, 73, 70, 70>>, <<83, 70, 90>> >>

\* \w of a str pattern on the code points 0..255
IsWord(c) ==
    \/ c \in 48..57 \/ c \in 65..90 \/ c \in 97..122 \/ c = 95
    \/ c \in {170, 178, 179, 181, 185, 186, 188, 189, 190}
    \/ c \in 192..214 \/ c \in 216..246 \/ c \in 248..255

\* parser line 58: the class [\w\- .,/\\()\[\]':]
ParPathChars ==
    {c \in Chars : IsWord(c) \/ c \in {45, 32, 46, 44, 47, 92, 40, 41, 91, 93, 39, 58}}

\* parser line 58, the match of path_re that begins at position p, as the position
\* of its last character; 0 when there is none. The class is matched greedily: the
\* most characters after which a dot and an extension follow.
ParPathEndAt(s, p) ==
    LET r == RunLen(s, p + 1, ParPathChars)
        ns == {n \in 1..r : /\ p + 1 + n <= Len(s)
                            /\ s[p + 1 + n] = Dot
                            /\ ExtLenAt(s, p + n + 2, ParExts) > 0}
    IN  IF p > Len(s) \/ s[p] # Slash \/ ns = {} THEN 0
        ELSE p + 1 + SetMax(ns) + ExtLenAt(s, p + SetMax(ns) + 2, ParExts)

\* parser line 81: path_re.finditer(inner_text) from position i on, the matches in
\* order
RECURSIVE ParPathsFrom(_, _)
ParPathsFrom(s, i) ==
    LET ps == {p \in i..Len(s) : ParPathEndAt(s, p) > 0}
    IN  IF ps = {} THEN <<>>
        ELSE <<SubSeq(s, SetMin(ps), ParPathEndAt(s, SetMin(ps)))>>
             \o ParPathsFrom(s, ParPathEndAt(s, SetMin(ps)) + 1)

ParPathFinditer(s) == ParPathsFrom(s, 1)

\* str.strip('\x00')
StripNul(s) ==
    LET keep == {i \in 1..Len(s) : s[i] # 0}
    IN  IF keep = {} THEN <<>> ELSE SubSeq(s, SetMin(keep), SetMax(keep))

\* s.split('\x00')[0]
BeforeNul(s) == SubSeq(s, 1, RunLen(s, 1, Except(0)))

\* injector line 189: the match of Container\s+"([^:]+):\s*([^\"]+)" that begins at
\* position p, as [ok, note, container] with both groups stripped
InjHeaderAt(s, p) ==
    LET w == RunLen(s, p + Len(LitContainer), SpaceChars)
        g1 == p + Len(LitContainer) + w + 1
        r1 == RunLen(s, g1, Except(Colon))
        g2 == g1 + r1 + 1
        r2 == RunLen(s, g2, Except(Quote))
    IN  IF /\ HasAt(s, p, LitContainer)
           /\ w >= 1
           /\ g1 - 1 <= Len(s) /\ s[g1 - 1] = Quote
           /\ r1 >= 1 /\ g1 + r1 <= Len(s)
           /\ r2 >= 1 /\ g2 + r2 <= Len(s)
        THEN [ok |-> TRUE, note |-> Strip(SubSeq(s, g1, g1 + r1 - 1)),
              container |-> Strip(SubSeq(s, g2, g2 + r2 - 1))]
        ELSE [ok |-> FALSE, note |-> <<>>, container |-> <<>>]

\* injector lines 189-194: re.search of the header, note and container '' when absent
InjHeader(s) ==
    LET ps == {p \in 1..Len(s) : InjHeaderAt(s, p).ok}
    IN  IF ps = {} THEN [ok |-> FALSE, note |-> <<>>, container |-> <<>>]
        ELSE InjHeaderAt(s, SetMin(ps))

\* the token loop without the break: the last token with a match wins
RECURSIVE InjFoundNoBreak(_, _, _)
InjFoundNoBreak(tokens, t, found) ==
    IF t > Len(tokens) THEN found
    ELSE LET dec == b64decode(tokens[t])
             pm == IF dec.ok THEN InjPathSearch(latin1_decode(dec.bytes))
                   ELSE [ok |-> FALSE, path |-> <<>>]
         IN  IF pm.ok THEN InjFoundNoBreak(tokens, t + 1, StripNul(pm.path))
             ELSE InjFoundNoBreak(tokens, t + 1, found)

\* injector lines 196-206: the loop over the inner tokens of a fragment from the
\* t-th on; found is None (here <<>>) until a token has a match, then the loop ends
RECURSIVE InjFound(_, _, _)
InjFound(tokens, t, found) ==
    IF t > Len(tokens) THEN found
    ELSE LET dec == b64decode(tokens[t])
             pm == IF dec.ok THEN InjPathSearch(latin1_decode(dec.bytes))
                   ELSE [ok |-> FALSE, path |-> <<>>]
         IN  IF pm.ok THEN StripNul(pm.path)
             ELSE InjFound(tokens, t + 1, found)

\* injector lines 187-210: the fragments from the f-th on
RECURSIVE InjFrags(_, _, _, _)
InjFrags(result, pname, frags, f) ==
    IF f > Len(frags) THEN result
    ELSE LET m == InjHeader(LitCONTAINER \o frags[f])
             found == InjFound(InnerTokens(frags[f]), 1, <<>>)
             key == <<pname, m.container, m.note>>
         IN  IF found # <<>> /\ ~DictHas(result, key)
             THEN InjFrags(Append(result, [key |-> key, path |-> found]), pname, frags, f + 1)
             ELSE InjFrags(result, pname, frags, f + 1)

\* injector lines 174-176: the stripped base64 lines of a span, all of them
InjB64Lines(block) ==
    LET lines == SelectSeq(splitlines_keepends(block), IsB64Line)
    IN  [k \in 1..Len(lines) |-> Strip(lines[k])]

\* injector lines 172-210: the presets from the k-th on
RECURSIVE InjPresets(_, _, _)
InjPresets(result, presets, k) ==
    IF k > Len(presets) THEN result
    ELSE LET b64_lines == InjB64Lines(presets[k].text)
             dec == b64decode(Join(b64_lines))
         IN  IF b64_lines = <<>> \/ ~dec.ok
             THEN InjPresets(result, presets, k + 1)
             ELSE InjPresets(InjFrags(result, presets[k].name,
                                      StrSplit(latin1_decode(dec.bytes), LitCONTAINER), 2),
                             presets, k + 1)

\* injector lines 166-210: a dict kept as the sequence of its items [key, path]
extract_map_from_rpl_text(text) == InjPresets(<<>>, find_preset_blocks(text), 1)

\* parser line 70: Container "([^"]+)", group 1 of the first match or ''
ParContainer(ch) ==
    LET open == LitContainer \o <<32, Quote>>
        Ok(p) == /\ HasAt(ch, p, open)
                 /\ RunLen(ch, p + Len(open), Except(Quote)) >= 1
                 /\ p + Len(open) + RunLen(ch, p + Len(open), Except(Quote)) <= Len(ch)
        ps == {p \in 1..Len(ch) : Ok(p)}
    IN  IF ps = {} THEN <<>>
        ELSE SubSeq(ch, SetMin(ps) + Len(open),
                    SetMin(ps) + Len(open) - 1
                       + RunLen(ch, SetMin(ps) + Len(open), Except(Quote)))

\* parser lines 81-85: one record per match in one token's text
ParMatches(container, inner_text) ==
    LET ms == ParPathFinditer(inner_text)
    IN  [x \in 1..Len(ms) |-> [container |-> container, path |-> BeforeNul(ms[x])]]

\* parser lines 73-85: the inner tokens of a chunk from the t-th on
RECURSIVE ParTokens(_, _, _)
ParTokens(container, tokens, t) ==
    IF t > Len(tokens) THEN <<>>
    ELSE LET dec == b64decode(tokens[t])
         IN  (IF dec.ok THEN ParMatches(container, latin1_decode(dec.bytes)) ELSE <<>>)
             \o ParTokens(container, tokens, t + 1)

\* parser lines 69-85: the chunks from the c-th on
RECURSIVE ParChunks(_, _)
ParChunks(chunks, c) ==
    IF c > Len(chunks) THEN <<>>
    ELSE ParTokens(ParContainer(chunks[c]), InnerTokens(chunks[c]), 1)
         \o ParChunks(chunks, c + 1)

\* parser lines 60-85: the outer blocks from the k-th on
RECURSIVE ParBlocks(_, _)
ParBlocks(blocks, k) ==
    IF k > Len(blocks) THEN <<>>
    ELSE LET dec == b64decode(blocks[k].b64)
         IN  (IF dec.ok
              THEN ParChunks(StrSplit(latin1_decode(dec.bytes), LitOpenCONTAINER), 1)
              ELSE <<>>)
             \o ParBlocks(blocks, k + 1)

\* parser lines 40-87 (lines 43-54 group the base64 lines as replace_in_block does):
\* a sequence of [container, path]
extract_paths_from_block(block_text) == ParBlocks(OuterBlocks(block_text), 1)

\* parser line 102
ParNote(container) ==
    IF \E i \in 1..Len(container) : container[i] = Colon
    THEN Strip(SubSeq(container, 1, RunLen(container, 1, Except(Colon))))
    ELSE <<>>

\* parser lines 99-103: the CSV rows of the presets from the k-th on
RECURSIVE ParRows(_, _)
ParRows(presets, k) ==
    IF k > Len(presets) THEN <<>>
    ELSE LET hits == extract_paths_from_block(presets[k].text)
         IN  [x \in 1..Len(hits) |->
                 CsvRow(presets[k].name, hits[x].container, ParNote(hits[x].container),
                        hits[x].path)]
             \o ParRows(presets, k + 1)

\* parser lines 96-103
parser_rows(text) == ParRows(parser_find_preset_blocks(text), 1)

\* Files for the extractors: one preset K1 with one outer block of one or two
\* container fragments; a fragment is [note, name, toks], a token [tok, paths] with
\* the string in the file and the paths its payload was made of
MaxTokens == 2

NoPathText ==
    <<110, 111, 32, 112, 97, 116, 104, 32, 105, 110, 32, 116, 104, 105, 115, 32, 116,
      111, 107, 101, 110>>                                     \* "no path in this token"
PresetOpenK1 == <<60, 80, 82, 69, 83, 69, 84, 32, 96, 75, 49, 96, 10>>   \* "<PRESET `K1`\n"
ClosingLine == <<62, 10>>                                                \* ">\n"

TokenKinds ==
    { [tok |-> Tok(OnePath(PathA)), paths |-> <<PathA>>],
      [tok |-> Tok(PathA \o <<0>> \o PathB \o <<0>>), paths |-> <<PathA, PathB>>],
      [tok |-> Tok(OnePath(PathC)), paths |-> <<PathC>>],
      [tok |-> Tok(NoPathText), paths |-> <<>>],
      [tok |-> BadB64, paths |-> <<>>] }

RECURSIVE TokenLists(_)
TokenLists(n) ==
    IF n = 0 THEN {<<>>}
    ELSE TokenLists(n - 1)
         \cup {Append(l, k) : l \in {x \in TokenLists(n - 1) : Len(x) = n - 1}, k \in TokenKinds}

\* the second fragment, when there is one
SecondFrags ==
    { [note |-> Note2, name |-> <<83>>,
       toks |-> <<[tok |-> Tok(OnePath(PathB)), paths |-> <<PathB>>]>>],
      [note |-> Note2, name |-> <<83>>,
       toks |-> <<[tok |-> Tok(NoPathText), paths |-> <<>>],
                  [tok |-> Tok(OnePath(PathC)), paths |-> <<PathC>>]>>] }

FragLists ==
    LET first == {[note |-> Note1, name |-> <<75>>, toks |-> l] : l \in TokenLists(MaxTokens)}
    IN  {<<f>> : f \in first} \cup {<<f, g>> : f \in first, g \in SecondFrags}

\* <CONTAINER Container "<note>: <name>" and one token a line
RECURSIVE TokenLines(_)
TokenLines(toks) ==
    IF toks = <<>> THEN <<>> ELSE Head(toks).tok \o <<10>> \o TokenLines(Tail(toks))

FragText(f) ==
    LitOpenCONTAINER \o <<32>> \o LitContainer \o <<32, Quote>> \o f.note \o <<Colon, 32>>
    \o f.name \o <<Quote, 10>> \o TokenLines(f.toks)

RECURSIVE FragsText(_)
FragsText(frags) ==
    IF frags = <<>> THEN <<>> ELSE FragText(Head(frags)) \o FragsText(Tail(frags))

\* a line width that leaves the last line of n characters a base64 line
SafeWidth(n) == CHOOSE w \in {76, 72, 68, 64} : n % w = 0 \/ n % w >= MinB64Len

FileOf(frags) ==
    LET outer_text == FragsText(frags)
    IN  PresetOpenK1
        \o OuterLines(outer_text, <<32, 32>>, SafeWidth(Len(Tok(outer_text))))
        \o ClosingLine

InitExtract ==
    /\ ex_frags \in FragLists
    /\ ex_text = FileOf(ex_frags)
    /\ ex_pc = 0
    /\ ex_map = <<>>
    /\ ex_rows = <<>>
    /\ LocIdle /\ RbIdle /\ DfIdle /\ MainIdle

\* readrum_injector.py, revised-CSV mode: the in-memory parse
InjectorExtract ==
    /\ ex_pc = 0
    /\ ex_map' = extract_map_from_rpl_text(ex_text)
    /\ ex_pc' = 1
    /\ UNCHANGED <<ex_frags, ex_text, ex_rows, exceptEx>>

\* readrum_parser.py on the same file
ParserExtract ==
    /\ ex_pc = 1
    /\ ex_rows' = parser_rows(ex_text)
    /\ ex_pc' = 2
    /\ UNCHANGED <<ex_frags, ex_text, ex_map, exceptEx>>

NextExtract == InjectorExtract \/ ParserExtract

SpecExtract == InitExtract /\ [][NextExtract]_vars

\* the tokens of a fragment that hold a path, and the first of them
PathTokens(f) == {t \in 1..Len(f.toks) : f.toks[t].paths # <<>>}
FirstPath(f) == f.toks[SetMin(PathTokens(f))].paths[1]

\* every path of every token of a fragment, in order
RECURSIVE AllPaths(_)
AllPaths(toks) == IF toks = <<>> THEN <<>> ELSE Head(toks).paths \o AllPaths(Tail(toks))

\* the injector's record of a fragment is the first path of its first token that
\* holds one, and there is no record when no token holds a path
InjFirstMatch ==
    /\ \A x \in 1..Len(ex_frags) :
          LET f == ex_frags[x]
              key == <<NameK1, f.name, f.note>>
              recs == {i \in 1..Len(ex_map) : ex_map[i].key = key}
          IN  IF PathTokens(f) = {} THEN recs = {}
              ELSE Cardinality(recs) = 1 /\ \A i \in recs : ex_map[i].path = FirstPath(f)
    /\ Len(ex_map) <= Len(ex_frags)

\* the parser's rows of a fragment, in order
ParRowsOf(f) ==
    SelectSeq(ex_rows, LAMBDA r : r.container = f.note \o <<Colon, 32>> \o f.name)

-----------------------------------------------------------------------------
(* readrum_injector.py main *)

\* Path.read_text: text mode translates "\r\n" and "\r" to "\n" (the files here are
\* ASCII, which utf8 decodes byte for byte)
read_text(content) ==
    LET idx == [i \in 1..Len(content) |-> i]
        kept == SelectSeq(idx, LAMBDA i : ~(content[i] = 10 /\ i > 1 /\ content[i - 1] = 13))
    IN  [k \in 1..Len(kept) |-> IF content[kept[k]] = 13 THEN 10 ELSE content[kept[k]]]

\* Path.write_text on a POSIX system: "\n" is written as it is
write_text(text) == text

\* lines 216-217: no key of the in-memory parse is a key of the revised CSV
NoIntersect(orig_map, rev_map) ==
    \A x \in 1..Len(orig_map) : ~DictHas(rev_map, orig_map[x].key)

\* lines 212-223: orig_map, from the in-memory parse or, when none of its keys is in
\* the revised CSV, from the CSV the readrum_parser.py subprocess writes; on_disk is
\* what the subprocess reads
revised_orig_map(in_memory, rev_map, on_disk) ==
    IF NoIntersect(in_memory, rev_map) THEN read_map(parser_rows(on_disk)) ELSE in_memory

\* lines 160-162 and 212-229: reps of the revised-CSV mode
revised_reps(rev_rows, text, on_disk) ==
    csv_pair_loop(revised_orig_map(extract_map_from_rpl_text(text), read_map(rev_rows), on_disk),
                  read_map(rev_rows), 1, <<>>)

\* lines 144-229
build_reps(args, text, on_disk) ==
    IF args.mode = "replacements" THEN args.reps
    ELSE IF args.mode = "csv_pair" THEN csv_pair_reps(args.orig, args.rev)
    ELSE revised_reps(args.rev, text, on_disk)

\* line 238
target_reps(reps, pname) ==
    SelectSeq(reps, LAMBDA r : r.preset = <<>> \/ r.preset = pname)

\* lines[a:b] = [item] of a Python list (a, b >= 0), the bounds clamped as Python does
SliceAssign(lines, a, b, item) ==
    LET lo == IF a > Len(lines) THEN Len(lines) ELSE a
        hi0 == IF b > Len(lines) THEN Len(lines) ELSE b
        hi == IF hi0 < lo THEN lo ELSE hi0
    IN  SubSeq(lines, 1, lo) \o <<item>> \o SubSeq(lines, hi + 1, Len(lines))

\* the rename and the write happen whatever --dry-run says
ShouldWriteIgnoresDryRun(modified, dry_run) == modified

\* lines 251-252: the file is rewritten
ShouldWrite(modified, dry_run) == modified /\ ~dry_run

\* line 121: the file is read, whatever the mode
ReadFile ==
    /\ m_pc = "start"
    /\ m_text' = read_text(m_fs.rpl)
    /\ m_log' = Append(m_log, "read")
    /\ m_pc' = "read"
    /\ UNCHANGED <<m_args, m_fs, m_fs0, m_reps, m_presets, m_k, m_text_lines, m_modified,
                   m_results, exceptMain>>

\* line 159: parser.error, no replacement source was given
MissingInput ==
    /\ m_pc = "read"
    /\ m_args.mode = "none"
    /\ m_log' = Append(m_log, "error")
    /\ m_pc' = "error"
    /\ UNCHANGED <<m_args, m_fs, m_fs0, m_text, m_reps, m_presets, m_k, m_text_lines,
                   m_modified, m_results, exceptMain>>

\* lines 144-233: reps built, the presets located, the text split into lines; the
\* parser subprocess of the revised mode reads the file again
BuildReps ==
    /\ m_pc = "read"
    /\ m_args.mode # "none"
    /\ m_reps' = build_reps(m_args, m_text, m_fs.rpl)
    /\ m_log' = IF /\ m_args.mode = "revised"
                   /\ NoIntersect(extract_map_from_rpl_text(m_text), read_map(m_args.rev))
                THEN Append(m_log, "read") ELSE m_log
    /\ m_presets' = find_preset_blocks(m_text)
    /\ m_text_lines' = splitlines_keepends(m_text)
    /\ m_modified' = FALSE
    /\ m_k' = 0
    /\ m_pc' = "loop"
    /\ UNCHANGED <<m_args, m_fs, m_fs0, m_text, m_results, exceptMain>>

\* lines 238-241: what the loop has for one preset, as [changed, text]; a preset
\* without rules is passed over
changed_and_text(res) == [changed |-> res.changed, text |-> res.text]

preset_result(pre, reps) ==
    IF reps = <<>> THEN [changed |-> FALSE, text |-> pre.text]
    ELSE changed_and_text(replace_in_block(pre.text, reps, TRUE))

\* lines 242-244: the preset's body lines replaced when it changed
lines_after(text_lines, pre, res) ==
    IF res.changed THEN SliceAssign(text_lines, pre.start + 1, pre.end, res.text)
    ELSE text_lines

\* lines 235-249: one preset of the loop
LoopStep ==
    /\ m_pc = "loop"
    /\ m_k < Len(m_presets)
    /\ m_results' = Append(m_results,
                           preset_result(m_presets[m_k + 1],
                                         target_reps(m_reps, m_presets[m_k + 1].name)))
    /\ m_modified' = (m_modified \/ m_results'[m_k + 1].changed)
    /\ m_text_lines' = lines_after(m_text_lines, m_presets[m_k + 1], m_results'[m_k + 1])
    /\ m_k' = m_k + 1
    /\ UNCHANGED <<m_args, m_fs, m_fs0, m_log, m_pc, m_text, m_reps, m_presets, exceptMain>>

\* lines 251-253 and 260-261: nothing to write, or --dry-run
NoWrite ==
    /\ m_pc = "loop"
    /\ m_k = Len(m_presets)
    /\ ~ShouldWrite(m_modified, m_args.dry_run)
    /\ m_pc' = "done"
    /\ UNCHANGED <<m_args, m_fs, m_fs0, m_log, m_text, m_reps, m_presets, m_k, m_text_lines,
                   m_modified, m_results, exceptMain>>

\* lines 255-256: inp.replace(bak)
Rename ==
    /\ m_pc = "loop"
    /\ m_k = Len(m_presets)
    /\ ShouldWrite(m_modified, m_args.dry_run)
    /\ m_fs' = [rpl |-> Absent, bak |-> m_fs.rpl]
    /\ m_log' = Append(m_log, "rename")
    /\ m_pc' = "renamed"
    /\ UNCHANGED <<m_args, m_fs0, m_text, m_reps, m_presets, m_k, m_text_lines, m_modified,
                   m_results, exceptMain>>

\* line 256 raising OSError: the rename did not happen and main ends
RenameFails ==
    /\ m_pc = "loop"
    /\ m_k = Len(m_presets)
    /\ ShouldWrite(m_modified, m_args.dry_run)
    /\ m_pc' = "failed"
    /\ UNCHANGED <<m_args, m_fs, m_fs0, m_log, m_text, m_reps, m_presets, m_k, m_text_lines,
                   m_modified, m_results, exceptMain>>

\* line 258: inp.write_text(''.join(text_lines))
WriteFile ==
    /\ m_pc = "renamed"
    /\ m_fs' = [m_fs EXCEPT !.rpl = write_text(Join(m_text_lines))]
    /\ m_log' = Append(m_log, "write")
    /\ m_pc' = "done"
    /\ UNCHANGED <<m_args, m_fs0, m_text, m_reps, m_presets, m_k, m_text_lines, m_modified,
                   m_results, exceptMain>>

Next ==
    \/ ReadFile \/ MissingInput \/ BuildReps \/ LoopStep
    \/ NoWrite \/ Rename \/ RenameFails \/ WriteFile

\* The files: a library of up to MaxPresets presets K1, K2, ..., each with one span
MaxPresets == 2

LibraryOpen ==
    <<60, 82, 69, 65, 80, 69, 82, 95, 80, 82, 69, 83, 69, 84, 95, 76, 73, 66, 82, 65, 82,
      89, 32, 120, 10>>                                   \* "<REAPER_PRESET_LIBRARY x\n"
\* "  <PRESET `K<n>`" and the line end: the second preset's line ends in "\r\n"
PresetOpen(n) ==
    <<32, 32, 60, 80, 82, 69, 83, 69, 84, 32, 96, 75, 48 + n, 96>>
    \o (IF n = 2 THEN <<13, 10>> ELSE <<10>>)
PresetClose == <<32, 32, 62, 10>>                         \* "  >\n"

\* container K holds path A once, container S holds it twice
BlockKS == OuterLines(Frag(HdrK, OnePath(PathA)) \o Frag(HdrS, TwicePath(PathA)), <<32, 32, 32, 32>>, 64)

MainSpans == {BlockA76, BlockAA64, BlockKS, BlockC40}

RECURSIVE Libraries(_)
Libraries(n) ==
    IF n = 0 THEN {<<>>}
    ELSE Libraries(n - 1)
         \cup {Append(l, b) : l \in {x \in Libraries(n - 1) : Len(x) = n - 1}, b \in MainSpans}

RECURSIVE PresetsText(_, _)
PresetsText(spans, n) ==
    IF n > Len(spans) THEN <<>>
    ELSE PresetOpen(n) \o spans[n] \o PresetClose \o PresetsText(spans, n + 1)

LibraryFile(spans) == LibraryOpen \o PresetsText(spans, 1) \o ClosingLine

ArgSets ==
    { [mode |-> "none"] }
    \cup { [mode |-> "replacements", reps |-> r] :
             r \in { <<Rule(<<>>, <<>>, PathA, PathB)>>,
                     <<Rule(NameK2, <<>>, PathA, PathB)>>,
                     <<Rule(<<>>, Note1 \o <<Colon, 32, 75>>, PathA, PathB)>>,
                     <<Rule(<<>>, <<>>, PathZ, PathA)>> } }
    \cup { [mode |-> "csv_pair",
            orig |-> <<CsvRow(NameK1, Note1 \o <<Colon, 32, 75>>, Note1, PathA)>>,
            rev |-> <<CsvRow(NameK1, Note1 \o <<Colon, 32, 75>>, Note1, PathB)>>] }
    \cup { [mode |-> "revised", rev |-> <<CsvRow(NameK1, c, Note1, PathB)>>] :
             c \in {Note1 \o <<Colon, 32, 75>>, <<75>>} }

Init ==
    /\ \E a \in ArgSets, d \in BOOLEAN : m_args = [x \in DOMAIN a \cup {"dry_run"} |->
                                                     IF x = "dry_run" THEN d ELSE a[x]]
    /\ \E spans \in Libraries(MaxPresets) \ {<<>>} :
           m_fs = [rpl |-> LibraryFile(spans), bak |-> Absent]
    /\ m_fs0 = m_fs
    /\ m_log = <<>>
    /\ m_pc = "start"
    /\ m_text = <<>> /\ m_reps = <<>> /\ m_presets = <<>> /\ m_k = 0
    /\ m_text_lines = <<>> /\ m_modified = FALSE /\ m_results = <<>>
    /\ LocIdle /\ RbIdle /\ DfIdle /\ ExIdle

Spec == Init /\ [][Next]_vars

-----------------------------------------------------------------------------
(* What the claims about replace_in_block speak of *)

\* the inner tokens of an outer block that decode, as [token, text]; none when the
\* block itself does not decode
DecodedTokens(blk) ==
    LET dec == b64decode(blk.b64)
        toks == IF dec.ok THEN InnerTokens(latin1_decode(dec.bytes)) ELSE <<>>
        good == SelectSeq(toks, LAMBDA t : b64decode(t).ok)
    IN  [n \in 1..Len(good) |-> [token |-> good[n], text |-> latin1_decode(b64decode(good[n]).bytes)]]

\* no inner token of the block contains the old path of a rule
BlockUntouched(blk, rules) ==
    LET toks == DecodedTokens(blk)
    IN  \A n \in 1..Len(toks) : \A j \in 1..Len(rules) :
            rules[j].old_path = <<>> \/ ~Contains(toks[n].text, rules[j].old_path)

NoOldPathLeft(text, rules) ==
    LET blocks == OuterBlocks(text)
    IN  \A b \in 1..Len(blocks) : BlockUntouched(blocks[b], rules)

\* the occurrences of old in t that a left-to-right reading counts: an occurrence
\* counts unless it overlaps a counted occurrence to its left
Occurrences(t, old) ==
    LET M == MatchPositions(t, old)
    IN  CHOOSE G \in SUBSET M :
            \A p \in M : (p \in G) <=> ~\E q \in G : q < p /\ p < q + Len(old)

\* t from position i on, with old replaced by new at the positions G
RECURSIVE SubstAt(_, _, _, _, _)
SubstAt(t, i, G, old, new) ==
    IF G = {} THEN SubSeq(t, i, Len(t))
    ELSE SubSeq(t, i, SetMin(G) - 1) \o new
         \o SubstAt(t, SetMin(G) + Len(old), G \ {SetMin(G)}, old, new)

\* a rule takes effect on t: its old path is not empty and occurs in t
Hits(rule, t) == rule.old_path # <<>> /\ Occurrences(t, rule.old_path) # {}

\* the token text after the first j rules, each rule reading what the rules before
\* it left
RECURSIVE TextAfter(_, _, _)
TextAfter(t, rules, j) ==
    IF j = 0 THEN t
    ELSE LET before == TextAfter(t, rules, j - 1)
         IN  IF Hits(rules[j], before)
             THEN SubstAt(before, 1, Occurrences(before, rules[j].old_path),
                          rules[j].old_path, rules[j].new_path)
             ELSE before

ReportEntry(rule, k, token) ==
    [old |-> rule.old_path, new |-> rule.new_path, count |-> k,
     inner_token |-> SubSeq(token, 1, 20)]

InReport(e, report) == \E x \in 1..Len(report) : report[x] = e

\* The base64 data of a text read back line by line: a data line is a non-empty line
\* of base64 characters of any length (the last line of a re-wrapped block may be
\* shorter than MinB64Len); contiguous data lines form one block.
IsDataLine(line) ==
    LET t == Strip(line)
    IN  t # <<>> /\ \A i \in 1..Len(t) : IsB64Char(t[i])

RECURSIVE DataGroups(_, _, _, _)
DataGroups(lines, i, cur, blocks) ==
    IF i > Len(lines)
    THEN IF cur # <<>> THEN Append(blocks, [b64 |-> cur]) ELSE blocks
    ELSE IF IsDataLine(lines[i])
    THEN DataGroups(lines, i + 1, cur \o Strip(lines[i]), blocks)
    ELSE DataGroups(lines, i + 1, <<>>,
                    IF cur # <<>> THEN Append(blocks, [b64 |-> cur]) ELSE blocks)

DataBlocks(text) == DataGroups(splitlines_keepends(text), 1, <<>>, <<>>)

\* the b-th data block of the returned text holds the token that encodes text
HoldsToken(out_text, b, text) ==
    LET blocks == DataBlocks(out_text)
    IN  /\ b <= Len(blocks)
        /\ LET toks == DecodedTokens(blocks[b])
           IN  \E n \in 1..Len(toks) : toks[n].text = text

\* C1: an outer block none of whose inner tokens contains an old path is, in the
\* returned span text, the same outer block byte for byte (characters, line breaks,
\* indentation, line width), whatever happened to the blocks before it.
C1_UntouchedBlockKept ==
    rb_pc >= 1 =>
        LET inB == OuterBlocks(rb_text)
            outB == OuterBlocks(rb_out1.text)
        IN  \A b \in 1..Len(inB) :
                BlockUntouched(inB[b], rb_rules)
                    => Len(outB) = Len(inB) /\ outB[b].orig = inB[b].orig

\* C4 as claimed: a second run with the same rules on the first run's text returns
\* changed = false, an empty report and the same text, for every span and rule list.
C4_SecondRunNoChanges ==
    rb_pc = 2 =>
        rb_out2 = [text |-> rb_out1.text, changed |-> FALSE, report |-> <<>>]

\* C4 as amended: when no inner token of the first run's text contains the old path
\* of a rule, a second run with the same rules returns changed = false, an empty
\* report and the same text.
C4_SecondRunNoChangesWhenNoOldPathLeft ==
    (rb_pc = 2 /\ NoOldPathLeft(rb_out1.text, rb_rules)) =>
        rb_out2 = [text |-> rb_out1.text, changed |-> FALSE, report |-> <<>>]

\* a first run that changed the span, no old path left, and a second run without changes
C4_Witness ==
    /\ rb_pc = 2
    /\ rb_out1.changed
    /\ rb_out1.text # rb_text
    /\ NoOldPathLeft(rb_out1.text, rb_rules)
    /\ ~rb_out2.changed

\* C6: the rules are applied to an inner token in list order, each to the text the
\* rules before it left; for every rule whose old path occurs k >= 1 times in that
\* text, the span is marked changed, the report has the entry (old, new, k, token),
\* and the returned block holds the token's text with all k occurrences replaced by
\* the new path (the token's text after the last rule).
C6_AllOccurrencesReplaced ==
    rb_pc >= 1 =>
        \A b \in 1..Len(OuterBlocks(rb_text)) :
            LET toks == DecodedTokens(OuterBlocks(rb_text)[b])
            IN  \A n \in 1..Len(toks) : \A j \in 1..Len(rb_rules) :
                    Hits(rb_rules[j], TextAfter(toks[n].text, rb_rules, j - 1)) =>
                        /\ rb_out1.changed
                        /\ InReport(ReportEntry(rb_rules[j],
                                        Cardinality(Occurrences(TextAfter(toks[n].text, rb_rules, j - 1),
                                                                rb_rules[j].old_path)),
                                        toks[n].token), rb_out1.report)
                        /\ HoldsToken(rb_out1.text, b,
                                      TextAfter(toks[n].text, rb_rules, Len(rb_rules)))

-----------------------------------------------------------------------------
(* What the claims about the injector's main speak of *)

LoopOver == m_pc \in {"loop", "renamed", "done", "failed"} /\ m_k = Len(m_presets)

\* the line with 0-based index i of the text that should be written: a changed
\* preset's body is the span text replace_in_block returned for it (put where the
\* body began), every other line is the line read
ExpectedLine(lines, i) ==
    LET hit == {k \in 1..Len(m_presets) :
                   /\ m_results[k].changed
                   /\ m_presets[k].start < i /\ i < m_presets[k].end}
    IN  IF hit = {} THEN lines[i + 1]
        ELSE IF \E k \in hit : i = m_presets[k].start + 1
        THEN m_results[CHOOSE k \in hit : i = m_presets[k].start + 1].text
        ELSE <<>>

ExpectedText ==
    LET lines == splitlines_keepends(m_text)
    IN  Join([i \in 1..Len(lines) |-> ExpectedLine(lines, i - 1)])

\* C2: after the loop over the presets, the text to be written is the lines read
\* with the body of each changed preset replaced by the span text replace_in_block
\* returned for it, every other line unchanged and in its place, however many
\* presets were changed.
C2_OnlyChangedBodiesReplaced ==
    LoopOver => Join(m_text_lines) = ExpectedText

Accesses(kinds) == {i \in 1..Len(m_log) : m_log[i] \in kinds}

\* C3: a write to the RPL path comes after the rename of the original to .bak, which
\* then holds the original content; when no preset was changed or --dry-run is set
\* there is neither rename nor write and the files are as they were.
C3_BackupBeforeWrite ==
    /\ \A i \in Accesses({"write"}) : \E j \in Accesses({"rename"}) : j < i
    /\ Accesses({"rename"}) # {} => m_fs.bak = m_fs0.rpl
    /\ m_fs.rpl # m_fs0.rpl => m_fs.bak = m_fs0.rpl
    /\ (~m_modified \/ m_args.dry_run) =>
           Accesses({"rename", "write"}) = {} /\ m_fs = m_fs0

\* a run that read, renamed, then wrote new content, the backup holding the original
C3_Witness ==
    /\ m_pc = "done"
    /\ m_log = <<"read", "rename", "write">>
    /\ m_fs.bak = m_fs0.rpl
    /\ m_fs.rpl # m_fs0.rpl /\ m_fs.rpl # Absent

\* a rule's container names a fragment's header label: the label itself as the
\* parser writes it ("1: K") or the name after the colon as the in-memory parse
\* keeps it ("K")
NamesContainer(rule_container, label) ==
    \/ rule_container = label
    \/ /\ \E i \in 1..Len(label) : label[i] = Colon
       /\ rule_container = Strip(SubSeq(label, RunLen(label, 1, Except(Colon)) + 2, Len(label)))

\* the paths of a span with the label of the fragment each lies in
PathsOf(span_text) == ParBlocks(DataBlocks(span_text), 1)

\* C5: a path in a fragment is left as it was by every rule whose non-empty container
\* names another fragment: when each rule of the preset whose old path occurs in the
\* path is such a rule, the span returned holds the path unchanged.
C5_OtherContainersUntouched ==
    \A k \in 1..Len(m_results) :
        LET before == PathsOf(m_presets[k].text)
            after == PathsOf(m_results[k].text)
            reps == target_reps(m_reps, m_presets[k].name)
        IN  \A x \in 1..Len(before) :
                (\A j \in 1..Len(reps) :
                     (reps[j].old_path # <<>> /\ Contains(before[x].path, reps[j].old_path))
                         => /\ reps[j].container # <<>>
                            /\ ~NamesContainer(reps[j].container, before[x].container))
                    => x <= Len(after) /\ after[x] = before[x]

\* C7: when no replacement source is given, the fatal error comes before any access
\* to the RPL file: no read, rename or write precedes it.
C7_ErrorBeforeFileAccess ==
    m_pc = "error" => Accesses({"read", "rename", "write"}) = {}

====
